---- MODULE Spec2Model ----
(***************************************************************************)
(* Model of function_app.py: the HTTP handler handle_query_handler and its *)
(* helper extract_titles.  Each request is a coroutine; the only points at *)
(* which another request can run are its awaits (the title-extraction      *)
(* call, the search call, every step of the async iteration of the search  *)
(* results, the answer-generation call), so there is one action per        *)
(* stretch of code between two awaits.  Text is modelled by TLA+ strings   *)
(* and the Python string operations by operators that compute what the     *)
(* Python operations compute.                                              *)
(***************************************************************************)
EXTENDS Integers, Sequences, FiniteSets, TLC

(* ---------------------------------------------------------------- bounds *)

NumRequests == 3

MaxRecords == 2

Requests == 1 .. NumRequests

(* ------------------------------------------------------- the environment *)

\* Request bodies: req.get_json() raises on a body that is not JSON; a JSON
\* object may or may not carry the key "query".
Bodies ==
    { [kind |-> "invalid", query |-> ""],
      [kind |-> "noquery", query |-> ""],
      [kind |-> "query",   query |-> ""],
      [kind |-> "query",   query |-> "x"],
      [kind |-> "query",   query |-> "y"] }

\* What response.choices[0].message of the language model may be: the call
\* raises, or the message has no "content" key, or it has one.
TitleContents == { "", "a", "a, b", "b, o'k, b" }

AnswerContents == { "ans" }

LlmOutcomes(contents) ==
    { [kind |-> "raise",  text |-> "llm down"],
      [kind |-> "absent", text |-> ""] }
    \cup { [kind |-> "content", text |-> c] : c \in contents }

\* Documents of the search index, with the selected fields title and content.
Documents ==
    { [title |-> "a", content |-> "c"],
      [title |-> "b", content |-> "say \"hi\"\nbye"],
      [title |-> "",  content |-> ""] }

RECURSIVE SeqsUpTo(_, _)
SeqsUpTo(S, n) ==
    IF n = 0 THEN { <<>> }
    ELSE LET shorter == SeqsUpTo(S, n - 1)
         IN  shorter \cup { Append(s, e) : s \in shorter, e \in S }

\* search_client.search raises, or returns a result stream that delivers
\* some records and then either ends or raises.
SearchOutcomes ==
    { [kind |-> "raise", text |-> "search down", records |-> <<>>, ending |-> "raise"] }
    \cup { [kind |-> "stream", text |-> "stream broken", records |-> recs, ending |-> e] :
             recs \in SeqsUpTo(Documents, MaxRecords), e \in {"end", "raise"} }

\* The range of behaviours of the request source and of the two mocked
\* collaborators: every behaviour above, or a reduced range for runs with
\* several requests in flight.
FullEnv ==
    [ bodies  |-> Bodies,
      titles  |-> LlmOutcomes(TitleContents),
      search  |-> SearchOutcomes,
      answers |-> LlmOutcomes(AnswerContents) ]

SmallEnv ==
    [ bodies  |-> { b \in Bodies : b.kind = "query" },
      titles  |-> { o \in LlmOutcomes({ "a" }) : o.kind # "absent" },
      search  |-> { o \in SearchOutcomes :
                      /\ Len(o.records) <= 1
                      /\ \A i \in 1 .. Len(o.records) : o.records[i].title = "a" },
      answers |-> { o \in LlmOutcomes(AnswerContents) : o.kind # "absent" } ]

(* ------------------------------------------------------ string functions *)

\* str.split(sep) with an explicit separator: scanning from the left, cut at
\* every non-overlapping occurrence of sep; the result always has at least
\* one element ("".split(", ") is [""]).
RECURSIVE SplitRec(_, _, _, _)
SplitRec(s, sep, start, i) ==
    IF i + Len(sep) - 1 > Len(s)
    THEN << SubSeq(s, start, Len(s)) >>
    ELSE IF SubSeq(s, i, i + Len(sep) - 1) = sep
         THEN << SubSeq(s, start, i - 1) >>
              \o SplitRec(s, sep, i + Len(sep), i + Len(sep))
         ELSE SplitRec(s, sep, start, i + 1)

Split(s, sep) == SplitRec(s, sep, 1, 1)

\* sep.join(parts)
RECURSIVE Join(_, _)
Join(sep, parts) ==
    IF Len(parts) = 0 THEN ""
    ELSE IF Len(parts) = 1 THEN parts[1]
    ELSE parts[1] \o sep \o Join(sep, Tail(parts))

\* message.get("content", default)
MessageGet(message, default) ==
    IF message.kind = "content" THEN message.text ELSE default

\* The escaping json.dumps applies inside a string.
EscapeChar(c) ==
    IF c = "\"" THEN "\\\""
    ELSE IF c = "\\" THEN "\\\\"
    ELSE IF c = "\n" THEN "\\n"
    ELSE c

RECURSIVE JsonEscape(_)
JsonEscape(s) ==
    IF Len(s) = 0 THEN ""
    ELSE EscapeChar(SubSeq(s, 1, 1)) \o JsonEscape(SubSeq(s, 2, Len(s)))

\* json.dumps(response_data): the keys in insertion order.
JsonDumps(response_data) ==
    "{\"openai_answer\": \"" \o JsonEscape(response_data.openai_answer)
    \o "\", \"retrieved_content\": \"" \o JsonEscape(response_data.retrieved_content)
    \o "\"}"

(* -------------------------------------------------- pieces of the handler *)

ExtractSystemPrompt == "Extract titles from the query. List of titles extracted from the query. Complete file names are considered titles. If there are no titles in the query, provide an empty list. For example, in the query 'Find the report on sales and the summary of the meeting using 'myreport.pdf', the titles would be ['myreport.pdf']. If no titles are found, return an empty list."

AnswerSystemPrompt == "You are a helpful assistant that answers queries. You do not have access to the internet, but you can use documents in the chat history to answer the question. If the documents do not contain the answer, say 'I don't know'. You must cite your answer with the titles of the documents used. If you are unsure, say 'I don't know'."

ExtractMessages(q) ==
    << [role |-> "system", content |-> ExtractSystemPrompt],
       [role |-> "user", content |-> "Extract the titles from this query: " \o q] >>

AnswerMessages(q, formatted) ==
    << [role |-> "system", content |-> AnswerSystemPrompt],
       [role |-> "user",
        content |-> "Answer this query: '" \o q
                    \o "' using the following documents:\n" \o formatted] >>

\* titles = response.choices[0].message.get("content", "").split(", ")
TitlesOf(message) == Split(MessageGet(message, ""), ", ")

\* Mutant: a title that occurs twice gets one clause.
RECURSIVE Distinct(_)
Distinct(ts) ==
    IF Len(ts) = 0 THEN <<>>
    ELSE LET front == Distinct(SubSeq(ts, 1, Len(ts) - 1))
         IN  IF \E i \in 1 .. Len(front) : front[i] = ts[Len(ts)]
             THEN front
             ELSE Append(front, ts[Len(ts)])

FilterQueryDistinct(ts) ==
    Join(" or ", [i \in 1 .. Len(Distinct(ts)) |-> "title eq '" \o Distinct(ts)[i] \o "'"])

\* " or ".join([f"title eq '{title}'" for title in titles])
FilterQuery(ts) ==
    Join(" or ", [i \in 1 .. Len(ts) |-> "title eq '" \o ts[i] \o "'"])

SearchSelect == << "title", "content" >>

\* Mutant: the two fields of a record in each other's place.
FormatResultSwapped(result) ==
    "Title: " \o result.content \o "\nContent: " \o result.title

\* f"Title: {result['title']}\nContent: {result['content']}"
FormatResult(result) ==
    "Title: " \o result.title \o "\nContent: " \o result.content

NoContentSentinel == "No relevant content found."

\* "\n".join([...]) and the replacement of an empty result by the sentinel
\* Mutant: the empty content block is not replaced by the sentinel.
FormattedResultsNoSentinel(parts) == Join("\n", parts)

FormattedResults(parts) ==
    LET joined == Join("\n", parts)
    IN  IF joined = "" THEN NoContentSentinel ELSE joined

NoAnswerFallback == "No answer generated."

BadRequest == [status |-> 400, body |-> "No query provided.", mimetype |-> "text/plain"]

\* Mutant: the message of the exception alone as the body.
ServerErrorBare(e) == [status |-> 500, body |-> e, mimetype |-> "text/plain"]

\* func.HttpResponse(f"Error: {str(e)}", status_code=500)
ServerError(e) == [status |-> 500, body |-> "Error: " \o e, mimetype |-> "text/plain"]

Ok(response_data) ==
    [status |-> 200, body |-> JsonDumps(response_data), mimetype |-> "application/json"]

(* ------------------------------------------------------------------ state *)

VARIABLES
    env,                \* the range of behaviours of the environment
    pc,                 \* where each request's coroutine is suspended
    body,               \* the body of each request
    query,              \* the handler's local  query
    titles,             \* the handler's local  titles
    results,            \* the result stream being iterated: what is left of it
    blocks,             \* the list the async comprehension has built so far
    formatted_results,  \* the handler's local  formatted_results
    responses,          \* the responses sent for each request
    log,                \* per request: the upstream calls issued and how they ended
    llmMock,            \* the language model's answers so far, by messages
    searchMock          \* the search index's answers so far, by filter

vars == << env, pc, body, query, titles, results, blocks, formatted_results,
           responses, log, llmMock, searchMock >>

NoBody == [kind |-> "none", query |-> ""]

NoStream == [records |-> <<>>, ending |-> "end", text |-> ""]

\* The requests r \in live will arrive; the mocks have answered nothing yet.
Start(e, live) ==
    /\ env = e
    /\ pc = [r \in Requests |-> IF r \in live THEN "idle" ELSE "off"]
    /\ body = [r \in Requests |-> NoBody]
    /\ query = [r \in Requests |-> ""]
    /\ titles = [r \in Requests |-> <<>>]
    /\ results = [r \in Requests |-> NoStream]
    /\ blocks = [r \in Requests |-> <<>>]
    /\ formatted_results = [r \in Requests |-> ""]
    /\ responses = [r \in Requests |-> <<>>]
    /\ log = [r \in Requests |-> <<>>]
    /\ llmMock = <<>>
    /\ searchMock = <<>>

\* One request, against every behaviour of the collaborators.
Init == Start(FullEnv, {1})

\* NumRequests requests in flight together, against the reduced range.
InitConcurrent == Start(SmallEnv, Requests)

(* ---------------------------------------------------------------- helpers *)

\* What get_json raises on a body that is not JSON.
JsonError == "HTTP request does not contain valid JSON data"

\* body.get("query", "")
BodyGet(b, default) == IF b.kind = "query" THEN b.query ELSE default

\* Mutant: only a missing value is rejected (if query is None); the default
\* of body.get makes that never the case.
QueryIsNone(q) == FALSE

\* if not query
QueryMissing(q) == q = ""

\* if titles
HasTitles(ts) == Len(ts) > 0

\* Mutant: the default of the title extraction used for the answer.
AnswerOfEmptyDefault(message) == MessageGet(message, "")

\* response.choices[0].message.get("content", "No answer generated.")
AnswerOf(message) == MessageGet(message, NoAnswerFallback)

\* Mutant: query kept in one module-level variable, the slot of request 1.
SharedQuery(r) == query[1]

\* The handler's local  query  of request r.
LocalQuery(r) == query[r]

Event(site, ev, arg) == [site |-> site, ev |-> ev, arg |-> arg, select |-> <<>>]

\* search_client.search(filter=filter_query, select=["title", "content"])
SearchCall(filter_query) ==
    [site |-> "search", ev |-> "call", arg |-> filter_query, select |-> SearchSelect]

\* The mocked collaborators are deterministic: a call with arguments seen
\* before ends as it ended before.
MockAnswers(mock, key, outcomes) ==
    IF key \in DOMAIN mock THEN { mock[key] } ELSE outcomes

Remember(mock, key, outcome) ==
    IF key \in DOMAIN mock THEN mock ELSE (key :> outcome) @@ mock

\* except Exception as e: return func.HttpResponse(f"Error: {str(e)}", 500)
Fail(r, e, events) ==
    /\ pc' = [pc EXCEPT ![r] = "done"]
    /\ responses' = [responses EXCEPT ![r] = Append(@, ServerError(e))]
    /\ log' = [log EXCEPT ![r] = @ \o events]

\* client.chat.completions.create(...) of the answer step is issued with the
\* content block  formatted  and the coroutine suspends on it.
CallAnswer(r, formatted, events) ==
    /\ formatted_results' = [formatted_results EXCEPT ![r] = formatted]
    /\ pc' = [pc EXCEPT ![r] = "answer"]
    /\ log' = [log EXCEPT ![r] =
                 @ \o events
                   \o << Event("answer", "call",
                               AnswerMessages(LocalQuery(r), formatted)[2].content) >>]

(* ---------------------------------------------------------------- actions *)

\* Lines 74-82 and 46: the request arrives, the body is parsed, the query is
\* validated and the title-extraction call is issued.
Begin(r, b) ==
    /\ pc[r] = "idle"
    /\ body' = [body EXCEPT ![r] = b]
    /\ UNCHANGED << env, titles, results, blocks, formatted_results, llmMock, searchMock >>
    /\ IF b.kind = "invalid"
       THEN /\ Fail(r, JsonError, <<>>)
            /\ UNCHANGED query
       ELSE /\ query' = [query EXCEPT ![r] = BodyGet(b, "")]
            /\ IF QueryMissing(BodyGet(b, ""))
               THEN /\ pc' = [pc EXCEPT ![r] = "done"]
                    /\ responses' = [responses EXCEPT ![r] = Append(@, BadRequest)]
                    /\ UNCHANGED log
               ELSE /\ pc' = [pc EXCEPT ![r] = "extract"]
                    /\ log' = [log EXCEPT ![r] =
                                 Append(@, Event("extract", "call",
                                                 ExtractMessages(BodyGet(b, ""))[2].content))]
                    /\ UNCHANGED responses

\* Lines 46-55 and 82-87 (or 94 when there are no titles): the
\* title-extraction call ends; the titles are split out of the message and
\* the search call, or the answer call, is issued.
ExtractReturn(r, o) ==
    /\ pc[r] = "extract"
    /\ o \in MockAnswers(llmMock, ExtractMessages(LocalQuery(r)), env.titles)
    /\ llmMock' = Remember(llmMock, ExtractMessages(LocalQuery(r)), o)
    /\ UNCHANGED << env, body, query, results, blocks, searchMock >>
    /\ IF o.kind = "raise"
       THEN /\ Fail(r, o.text, << Event("extract", "raise", o.text) >>)
            /\ UNCHANGED << titles, formatted_results >>
       ELSE /\ titles' = [titles EXCEPT ![r] = TitlesOf(o)]
            /\ IF HasTitles(TitlesOf(o))
               THEN /\ pc' = [pc EXCEPT ![r] = "search"]
                    /\ log' = [log EXCEPT ![r] =
                                 @ \o << Event("extract", "return", o.text),
                                         SearchCall(FilterQuery(TitlesOf(o))) >>]
                    /\ UNCHANGED << formatted_results, responses >>
               ELSE /\ CallAnswer(r, "", << Event("extract", "return", o.text) >>)
                    /\ UNCHANGED responses

\* Line 87: the search call ends, with a result stream or an exception.
SearchReturn(r, o) ==
    /\ pc[r] = "search"
    /\ o \in MockAnswers(searchMock, FilterQuery(titles[r]), env.search)
    /\ searchMock' = Remember(searchMock, FilterQuery(titles[r]), o)
    /\ UNCHANGED << env, body, query, titles, formatted_results, llmMock >>
    /\ IF o.kind = "raise"
       THEN /\ Fail(r, o.text, << Event("search", "raise", o.text) >>)
            /\ UNCHANGED << results, blocks >>
       ELSE /\ pc' = [pc EXCEPT ![r] = "iterate"]
            /\ results' = [results EXCEPT ![r] =
                             [records |-> o.records, ending |-> o.ending, text |-> o.text]]
            /\ blocks' = [blocks EXCEPT ![r] = <<>>]
            /\ log' = [log EXCEPT ![r] = Append(@, Event("search", "return", ""))]
            /\ UNCHANGED responses

\* Mutant: the answer call is issued as soon as the first record is there,
\* with the rest of the stream still to come.
IterNextEager(r) ==
    /\ pc[r] = "iterate"
    /\ UNCHANGED << env, body, query, titles, llmMock, searchMock >>
    /\ IF Len(results[r].records) > 0
       THEN /\ blocks' = [blocks EXCEPT ![r] = Append(@, FormatResult(Head(results[r].records)))]
            /\ results' = [results EXCEPT ![r].records = Tail(@)]
            /\ CallAnswer(r, FormattedResults(blocks'[r]),
                          << Event("search", "item", FormatResult(Head(results[r].records))) >>)
            /\ UNCHANGED responses
       ELSE IF results[r].ending = "raise"
       THEN /\ Fail(r, results[r].text, << Event("search", "raise", results[r].text) >>)
            /\ UNCHANGED << results, blocks, formatted_results >>
       ELSE /\ CallAnswer(r, FormattedResults(blocks[r]), << Event("search", "end", "") >>)
            /\ UNCHANGED << results, blocks, responses >>

\* Lines 88-94: one step of the async comprehension over the result stream:
\* the stream delivers a record, or raises, or ends; when it ends the content
\* block is built and the answer call is issued.
IterNext(r) ==
    /\ pc[r] = "iterate"
    /\ UNCHANGED << env, body, query, titles, llmMock, searchMock >>
    /\ IF Len(results[r].records) > 0
       THEN /\ blocks' = [blocks EXCEPT ![r] = Append(@, FormatResult(Head(results[r].records)))]
            /\ results' = [results EXCEPT ![r].records = Tail(@)]
            /\ log' = [log EXCEPT ![r] =
                         Append(@, Event("search", "item",
                                         FormatResult(Head(results[r].records))))]
            /\ UNCHANGED << pc, formatted_results, responses >>
       ELSE IF results[r].ending = "raise"
       THEN /\ Fail(r, results[r].text, << Event("search", "raise", results[r].text) >>)
            /\ UNCHANGED << results, blocks, formatted_results >>
       ELSE /\ CallAnswer(r, FormattedResults(blocks[r]), << Event("search", "end", "") >>)
            /\ UNCHANGED << results, blocks, responses >>

\* Lines 94-107: the answer call ends and the response is built.
AnswerReturn(r, o) ==
    /\ pc[r] = "answer"
    /\ o \in MockAnswers(llmMock, AnswerMessages(LocalQuery(r), formatted_results[r]),
                         env.answers)
    /\ llmMock' = Remember(llmMock, AnswerMessages(LocalQuery(r), formatted_results[r]), o)
    /\ UNCHANGED << env, body, query, titles, results, blocks, formatted_results, searchMock >>
    /\ IF o.kind = "raise"
       THEN Fail(r, o.text, << Event("answer", "raise", o.text) >>)
       ELSE /\ pc' = [pc EXCEPT ![r] = "done"]
            /\ responses' = [responses EXCEPT ![r] =
                               Append(@, Ok([openai_answer |-> AnswerOf(o),
                                             retrieved_content |-> formatted_results[r]]))]
            /\ log' = [log EXCEPT ![r] = Append(@, Event("answer", "return", o.text))]

Next ==
    \/ \E r \in Requests, b \in env.bodies : Begin(r, b)
    \/ \E r \in Requests, o \in env.titles : ExtractReturn(r, o)
    \/ \E r \in Requests, o \in env.search : SearchReturn(r, o)
    \/ \E r \in Requests : IterNext(r)
    \/ \E r \in Requests, o \in env.answers : AnswerReturn(r, o)

Spec == Init /\ [][Next]_vars

SpecConcurrent == InitConcurrent /\ [][Next]_vars

TypeOK ==
    /\ \A r \in Requests :
         pc[r] \in {"off", "idle", "extract", "search", "iterate", "answer", "done"}
    /\ \A r \in Requests : Len(responses[r]) \in {0, 1}

(* ------------------------------------------------ reading the call log *)

Indices(r, site, ev) ==
    { i \in 1 .. Len(log[r]) : log[r][i].site = site /\ log[r][i].ev = ev }

Logged(r, site, ev) == Indices(r, site, ev) # {}

Responded(r, status) ==
    /\ Len(responses[r]) = 1
    /\ responses[r][1].status = status

\* How the title-extraction call of request r ended.
ExtractOutcome(r) == llmMock[ExtractMessages(query[r])]

ExtractReturned(r) == Logged(r, "extract", "return")

\* How the search call of request r ended.
SearchOutcome(r) == searchMock[FilterQuery(titles[r])]

\* The result stream of request r was consumed to its end.
StreamConsumed(r) == Logged(r, "search", "end")

\* How the answer-generation call of request r ended.
AnswerOutcome(r) == llmMock[AnswerMessages(query[r], formatted_results[r])]

AnswerReturned(r) == Logged(r, "answer", "return")

\* The body of a 200 response with the two given fields.
JsonBody(answer, content) ==
    JsonDumps([openai_answer |-> answer, retrieved_content |-> content])

(* ------------------------------------------------------------------ C1 *)

\* C1: a request whose "query" field is missing or empty is answered with
\* status 400 and body "No query provided.", and no call to the language
\* model or to the search index is ever issued for it.
C1_EmptyQueryRejected ==
    \A r \in Requests :
        (body[r].kind \in {"noquery", "query"} /\ BodyGet(body[r], "") = "")
        => /\ pc[r] = "done"
           /\ Responded(r, 400)
           /\ responses[r][1].body = "No query provided."
           /\ log[r] = <<>>

C1_Witness ==
    \E r \in Requests :
        /\ body[r].kind = "noquery"
        /\ Responded(r, 400)

(* ------------------------------------------------------------------ C2 *)

\* The language model reported no titles: the message of the title
\* extraction has no content or an empty one.
NoTitlesReported(r) ==
    /\ ExtractReturned(r)
    /\ MessageGet(ExtractOutcome(r), "") = ""

\* C2: when the language model reports no titles for a non-empty query, the
\* search index is never called and the 200 response carries the empty
\* string as retrieved_content, never the sentinel.
C2_NoTitlesSkipsSearch ==
    \A r \in Requests :
        NoTitlesReported(r)
        => /\ ~ Logged(r, "search", "call")
           /\ Responded(r, 200) =>
                responses[r][1].body = JsonBody(AnswerOf(AnswerOutcome(r)), "")

(* ------------------------------------------------------------------ C3 *)

\* C3: when the title-extraction call succeeds with a message that has no
\* content field, the title list is empty and the handler goes straight on
\* to answer generation: it is not aborted.
C3_AbsentContentEmptyTitles ==
    \A r \in Requests :
        (ExtractReturned(r) /\ ExtractOutcome(r).kind = "absent")
        => /\ titles[r] = <<>>
           /\ Logged(r, "answer", "call")
           /\ ~ Responded(r, 500) \/ Logged(r, "answer", "raise")

(* ------------------------------------------------------------------ C4 *)

RaisedAt(r) == { i \in 1 .. Len(log[r]) : log[r][i].ev = "raise" }

\* C4: when an upstream call (title extraction, search, the iteration of the
\* search results, answer generation) raises, the request ends with exactly
\* one response, of status 500 and with a body starting "Error: "; the
\* exception is the last upstream event of the request, and no call site was
\* used twice.
C4_UpstreamFailureIs500 ==
    \A r \in Requests :
        RaisedAt(r) # {}
        => /\ pc[r] = "done"
           /\ Responded(r, 500)
           /\ SubSeq(responses[r][1].body, 1, 7) = "Error: "
           /\ RaisedAt(r) = { Len(log[r]) }
           /\ \A site \in {"extract", "search", "answer"} :
                Cardinality(Indices(r, site, "call")) <= 1

C4_Witness ==
    \E r \in Requests :
        /\ Logged(r, "search", "item")
        /\ Logged(r, "search", "raise")
        /\ Responded(r, 500)

(* ------------------------------------------------------------------ C5 *)

\* The upstream operation of request r that is outstanding after the first
\* n events of its log, if any.
Completes(e) ==
    \/ e.ev = "raise"
    \/ e.site \in {"extract", "answer"} /\ e.ev = "return"
    \/ e.site = "search" /\ e.ev = "end"

\* C5: the upstream calls of a request are strictly sequential: a call is
\* issued only when the one before it has completed (the search call after
\* the title extraction has returned; the answer call after the result
\* stream was consumed to its end, or after the title extraction when
\* retrieval is skipped), a suspended request has exactly one call
\* outstanding, and a 200 response is sent only after the answer call
\* returned.
C5_StrictlySequential ==
    \A r \in Requests :
        /\ \A i \in 1 .. Len(log[r]) :
             log[r][i].ev = "call" =>
                CASE log[r][i].site = "extract" -> i = 1
                  [] log[r][i].site = "search" ->
                        /\ i > 1
                        /\ log[r][i - 1].site = "extract"
                        /\ log[r][i - 1].ev = "return"
                  [] log[r][i].site = "answer" ->
                        /\ i > 1
                        /\ \/ log[r][i - 1].site = "search" /\ log[r][i - 1].ev = "end"
                           \/ /\ log[r][i - 1].site = "extract"
                              /\ log[r][i - 1].ev = "return"
                              /\ ~ Logged(r, "search", "call")
        /\ pc[r] \in {"extract", "search", "iterate", "answer"}
             <=> (log[r] # <<>> /\ ~ Completes(log[r][Len(log[r])]))
        /\ Responded(r, 200) =>
             /\ log[r][Len(log[r])].site = "answer"
             /\ log[r][Len(log[r])].ev = "return"

C5_Witness ==
    \E r \in Requests :
        /\ Responded(r, 200)
        /\ Cardinality(Indices(r, "search", "item")) >= 2

(* ------------------------------------------------------------------ C6 *)

\* C6: when the title list is not empty and the result stream ends without
\* having delivered a record, the content block is "No relevant content
\* found.": that text is what the answer prompt embeds and what a 200
\* response carries as retrieved_content.
C6_SentinelOnNoRecords ==
    \A r \in Requests :
        (Len(titles[r]) > 0 /\ StreamConsumed(r) /\ ~ Logged(r, "search", "item"))
        => /\ \E i \in Indices(r, "answer", "call") :
                log[r][i].arg = "Answer this query: '" \o query[r]
                                \o "' using the following documents:\n"
                                \o "No relevant content found."
           /\ Responded(r, 200) =>
                responses[r][1].body =
                    JsonBody(AnswerOf(AnswerOutcome(r)), "No relevant content found.")

C6_Witness ==
    \E r \in Requests :
        /\ Len(titles[r]) > 0
        /\ StreamConsumed(r)
        /\ ~ Logged(r, "search", "item")
        /\ Responded(r, 200)

(* ------------------------------------------------------------------ C7 *)

\* The content block the claim prescribes for the records recs, written out.
RECURSIVE ExpectedBlocks(_)
ExpectedBlocks(recs) ==
    IF Len(recs) = 0 THEN ""
    ELSE "Title: " \o recs[1].title \o "\nContent: " \o recs[1].content
         \o (IF Len(recs) = 1 THEN "" ELSE "\n" \o ExpectedBlocks(Tail(recs)))

\* C7: when the title list is not empty and the result stream delivers
\* N >= 1 records and ends, retrieved_content of the 200 response is the N
\* blocks "Title: {title}\nContent: {content}" joined by newlines, one per
\* record and in the order of delivery, and it is not the sentinel.
C7_BlocksInStreamOrder ==
    \A r \in Requests :
        (/\ Len(titles[r]) > 0
         /\ StreamConsumed(r)
         /\ Logged(r, "search", "item")
         /\ Responded(r, 200))
        => /\ Len(SearchOutcome(r).records) = Cardinality(Indices(r, "search", "item"))
           /\ responses[r][1].body =
                JsonBody(AnswerOf(AnswerOutcome(r)), ExpectedBlocks(SearchOutcome(r).records))
           /\ responses[r][1].body #
                JsonBody(AnswerOf(AnswerOutcome(r)), "No relevant content found.")

C7_Witness ==
    \E r \in Requests :
        /\ Responded(r, 200)
        /\ Len(titles[r]) > 0
        /\ Len(SearchOutcome(r).records) >= 2
        /\ SearchOutcome(r).records[1] # SearchOutcome(r).records[2]
        /\ \E i \in 1 .. Len(SearchOutcome(r).records) :
              SearchOutcome(r).records[i] = [title |-> "", content |-> ""]

(* ------------------------------------------------------------------ C8 *)

\* C8: when the answer call succeeds with a message that has no content
\* field, the response is 200 with openai_answer "No answer generated." and
\* with the content block that was embedded in the answer prompt as
\* retrieved_content.
C8_AnswerFallback ==
    \A r \in Requests :
        (AnswerReturned(r) /\ AnswerOutcome(r).kind = "absent")
        => /\ Responded(r, 200)
           /\ LET content == formatted_results[r]
              IN  /\ \E i \in Indices(r, "answer", "call") :
                        log[r][i].arg = "Answer this query: '" \o query[r]
                                        \o "' using the following documents:\n"
                                        \o content
                  /\ responses[r][1].body = JsonBody("No answer generated.", content)

C8_Witness ==
    \E r \in Requests :
        /\ AnswerReturned(r)
        /\ AnswerOutcome(r).kind = "absent"
        /\ Logged(r, "search", "item")

(* ------------------------------------------------------------------ C9 *)

Unknown == [status |-> 0, body |-> "", mimetype |-> ""]

\* What the answer step makes of the query q and the content block, given
\* the answers of the language model.
ExpectedAnswer(q, content) ==
    IF AnswerMessages(q, content) \notin DOMAIN llmMock THEN Unknown
    ELSE LET a == llmMock[AnswerMessages(q, content)]
         IN  IF a.kind = "raise" THEN ServerError(a.text)
             ELSE Ok([openai_answer |-> AnswerOf(a), retrieved_content |-> content])

\* What the retrieval step and the answer step make of the query q and the
\* title list ts, given the answers of the two collaborators.
ExpectedRetrieval(q, ts) ==
    IF ~ HasTitles(ts) THEN ExpectedAnswer(q, "")
    ELSE IF FilterQuery(ts) \notin DOMAIN searchMock THEN Unknown
    ELSE LET s == searchMock[FilterQuery(ts)]
         IN  IF s.kind = "raise" \/ s.ending = "raise" THEN ServerError(s.text)
             ELSE ExpectedAnswer(q, FormattedResults(
                      [i \in 1 .. Len(s.records) |-> FormatResult(s.records[i])]))

\* The response to a request with body b, as a function of b and of the
\* answers of the deterministic collaborators alone.
ExpectedResponse(b) ==
    IF b.kind = "invalid" THEN ServerError(JsonError)
    ELSE IF BodyGet(b, "") = "" THEN BadRequest
    ELSE IF ExtractMessages(b.query) \notin DOMAIN llmMock THEN Unknown
    ELSE LET e == llmMock[ExtractMessages(b.query)]
         IN  IF e.kind = "raise" THEN ServerError(e.text)
             ELSE ExpectedRetrieval(b.query, TitlesOf(e))

\* C9: with deterministic collaborators the response to a request is a
\* function of its body and of the collaborators' answers, whatever the other
\* requests in flight do and however they end: a finished request has the
\* response a request handled alone would have, and two finished requests
\* with the same body have the same response.
C9_RequestsIndependent ==
    /\ \A r \in Requests :
          pc[r] = "done" => responses[r] = << ExpectedResponse(body[r]) >>
    /\ \A r1, r2 \in Requests :
          (pc[r1] = "done" /\ pc[r2] = "done" /\ body[r1] = body[r2])
          => responses[r1] = responses[r2]

C9_Witness ==
    \E r1, r2 \in Requests :
        /\ r1 # r2
        /\ body[r1] = body[r2]
        /\ Responded(r1, 200)
        /\ Responded(r2, 200)
        /\ Logged(r1, "search", "item")
        /\ \E r3 \in Requests : Responded(r3, 500)

(* ----------------------------------------------------------------- C10 *)

\* The filter the claim prescribes for the title list ts, written out.
RECURSIVE ExpectedFilter(_)
ExpectedFilter(ts) ==
    IF Len(ts) = 0 THEN ""
    ELSE "title eq '" \o ts[1] \o "'"
         \o (IF Len(ts) = 1 THEN "" ELSE " or " \o ExpectedFilter(Tail(ts)))

\* C10: for a title list that is not empty the search index is called
\* exactly once, with the filter "title eq 'T1' or ... or title eq 'Tk'":
\* one clause per title, in the order of the list, duplicates kept, quotes
\* not escaped; and with select = [title, content].
C10_FilterFromTitles ==
    \A r \in Requests :
        (ExtractReturned(r) /\ Len(titles[r]) > 0)
        => /\ Cardinality(Indices(r, "search", "call")) = 1
           /\ \A i \in Indices(r, "search", "call") :
                /\ log[r][i].arg = ExpectedFilter(titles[r])
                /\ log[r][i].select = << "title", "content" >>

C10_Witness ==
    \E r \in Requests :
        /\ titles[r] = << "b", "o'k", "b" >>
        /\ \E i \in Indices(r, "search", "call") :
              log[r][i].arg = "title eq 'b' or title eq 'o'k' or title eq 'b'"
        /\ pc[r] = "done"

====
